---- MODULE Spec2Model ----
(***************************************************************************)
(* Model of the spin-to-win company pool program                           *)
(*   src/contract/programs/contract/src/probability.rs  (allocator,        *)
(*                                                       selector)         *)
(*   src/contract/programs/contract/src/lib.rs          (instructions)     *)
(*                                                                         *)
(* Amounts.  Every u64 amount (item price, ticket price, lamports) is      *)
(* counted in units of 2^56 lamports, so that the u64 range is 0..255      *)
(* units and checked_add overflows exactly when a sum reaches U64Limit.    *)
(*                                                                         *)
(* Floating point.  Item values and ticket prices are perfect squares, so  *)
(* (value / ticket_price)^1.5 is the rational (Root(value)/Root(price))^3  *)
(* and every weight is a rational with denominator dividing WeightScale.   *)
(* Weights are kept as integers in units of 1/WeightScale; the shares      *)
(* round(weight / total * 10000) are computed exactly (round half up, the  *)
(* f64 round() on non-negative numbers).  The three non-finite cases of    *)
(* the f64 code are kept apart:                                            *)
(*   value = 0          tickets_needed is 0.0 (or NaN when the price is 0  *)
(*                      too), max(MIN_POSITIVE) gives MIN_POSITIVE and the *)
(*                      weight is 1/MIN_POSITIVE = 2^1022 ("huge");        *)
(*   price = 0, value>0 tickets_needed = +inf, weight = 1/inf = 0;         *)
(*   four huge weights  their sum overflows to +inf, every share is 0.     *)
(* A huge weight absorbs every finite weight added to it (2^1022 + w =     *)
(* 2^1022 in f64 for w < 2^969).                                           *)
(*                                                                         *)
(* u32.  A probability is a u32.  A value of 2^31 or more is represented   *)
(* by the integer congruent to it modulo 2^32 in -2^31 .. -1, so that      *)
(* wrapping addition and subtraction are integer addition and subtraction  *)
(* and 4294967295 is written -1.                                           *)
(***************************************************************************)
EXTENDS Integers, Sequences, FiniteSets, TLC

(***************************************************************************)
(* Program constants                                                       *)
(***************************************************************************)
BasisPoints == 10000
MaxItems == 10
MaxNameLen == 50
MaxUrlLen == 200
\* 2^64 in units of 2^56 lamports: a u64 holds 0 .. U64Limit - 1 units
U64Limit == 256
\* 1/f64::MIN_POSITIVE = 2^1022; four of them add up to 2^1024 = +inf
HugeWeightsToInfinity == 4

(***************************************************************************)
(* Bounds of the input sets                                                *)
(***************************************************************************)
\* an item list is a run of at most MaxRepeat equal values followed by
\* at most MaxTail arbitrary values
MaxRepeat == 11
MaxTail == 2
\* perfect squares (0 is the invalid value)
Values == {0, 1, 100, 225}
Prices == {0, 1, 4}
\* common denominator of the weights: lcm of Root(v)^3 over Values
WeightScale == 27 * 1000

(***************************************************************************)
(* Helpers                                                                 *)
(***************************************************************************)
RECURSIVE SumSeq(_)
SumSeq(s) == IF s = <<>> THEN 0 ELSE Head(s) + SumSeq(Tail(s))

Root(v) == CHOOSE s \in 0..v : s * s = v

Cube(x) == x * x * x

Repeat(v, k) == [i \in 1..k |-> v]

RECURSIVE TuplesUpTo(_, _)
TuplesUpTo(S, n) ==
    IF n = 0 THEN {<<>>}
    ELSE LET shorter == TuplesUpTo(S, n - 1)
         IN  shorter \cup {Append(t, v) : t \in {u \in shorter : Len(u) = n - 1}, v \in S}

ItemLists ==
    {Repeat(c, k) \o t : c \in Values, k \in 0..MaxRepeat, t \in TuplesUpTo(Values, MaxTail)}

\* round(num / den) for num >= 0, den > 0, as f64::round on the exact quotient
RoundDiv(num, den) == (2 * num + den) \div (2 * den)

\* round(w / s * 10000) for 0 <= w <= s, by long division (no product
\* larger than 10 * s is formed)
ScaledQuot(w, s) ==
    LET r0 == w % s
        r1 == (10 * r0) % s
        r2 == (10 * r1) % s
        r3 == (10 * r2) % s
        r4 == (10 * r3) % s
    IN  (w \div s) * 10000 + ((10 * r0) \div s) * 1000 + ((10 * r1) \div s) * 100
          + ((10 * r2) \div s) * 10 + ((10 * r3) \div s)
          + (IF 2 * r4 >= s THEN 1 ELSE 0)

(***************************************************************************)
(* probability.rs: WeightedProbabilityCalculator                           *)
(***************************************************************************)
\* the weight of an item is 2^1022
IsHuge(value) == value = 0

\* the weight of an item in units of 1/WeightScale (0 for a huge weight,
\* which is counted apart)
\* the weight grows with the value instead of falling
ItemWeightDirect(value, price) ==
    IF value = 0 \/ price = 0 THEN 0
    ELSE (Cube(Root(value)) * Cube(2)) \div Cube(Root(price))

\* value / ticket_price is divided in u64 before the conversion to f64
ItemWeightTruncated(value, price) ==
    IF value = 0 \/ price = 0 THEN 0
    ELSE (Cube(Root(price)) \div Cube(Root(value))) * WeightScale

ItemWeight(value, price) ==
    IF value = 0 \/ price = 0 THEN 0
    ELSE (Cube(Root(price)) * WeightScale) \div Cube(Root(value))

\* calculate_weights_advanced: the weights and their total
Weights(values, price) == [i \in 1..Len(values) |-> ItemWeight(values[i], price)]

HugeCount(values) == Cardinality({i \in 1..Len(values) : IsHuge(values[i])})

TotalWeight(values, price) == SumSeq(Weights(values, price))

\* first loop of normalize_probabilities: the independently rounded shares
\* (at most 10000 each, so neither the cast to u32 nor saturating_add
\* saturates)
RoundedShares(values, price) ==
    LET huge  == HugeCount(values)
        total == TotalWeight(values, price)
        w     == Weights(values, price)
    IN  [i \in 1..Len(values) |->
            IF huge >= HugeWeightsToInfinity THEN 0
            ELSE IF huge >= 1
                 THEN (IF IsHuge(values[i]) THEN RoundDiv(BasisPoints, huge) ELSE 0)
            ELSE IF total = 0 THEN 0
            ELSE ScaledQuot(w[i], total)]

\* 10000 - running_total in u32: with overflow checks the subtraction
\* panics when running_total > 10000, without them it wraps (the wrapped
\* value 2^32 + 10000 - running_total is written 10000 - running_total)
RemainderPanics(running_total, checks) == checks /\ running_total > BasisPoints

\* second loop of normalize_probabilities: every item but the last is
\* rescaled by 10000 / total_probability, the last one takes the remainder
\* (RescaledNoRemainder: the last item is rescaled like the others)
RescaledNoRemainder(first, total_probability) ==
    [i \in 1..Len(first) |-> RoundDiv(first[i] * BasisPoints, total_probability)]

Rescaled(first, total_probability) ==
    LET n      == Len(first)
        scaled == [i \in 1..n |-> RoundDiv(first[i] * BasisPoints, total_probability)]
        running_total == SumSeq(SubSeq(scaled, 1, n - 1))
    IN  [i \in 1..n |-> IF i = n THEN BasisPoints - running_total ELSE scaled[i]]

\* running_total when the last item is reached (0 when the loop is skipped)
RunningTotal(values, price) ==
    LET first == RoundedShares(values, price)
        total_probability == SumSeq(first)
    IN  IF total_probability > 0 /\ total_probability # BasisPoints
        THEN SumSeq(SubSeq(Rescaled(first, total_probability), 1, Len(first) - 1))
        ELSE 0

\* normalize_probabilities: the probabilities left in the calculator
normalize_probabilities(values, price) ==
    LET first == RoundedShares(values, price)
        total_probability == SumSeq(first)
    IN  IF total_probability > 0 /\ total_probability # BasisPoints
        THEN Rescaled(first, total_probability)
        ELSE first

\* validate_probabilities: the u32 sum of the probabilities is 10000
validate_probabilities(probs) == SumSeq(probs) = BasisPoints

\* calculate_item_probabilities(items, ticket_price); items are given by
\* their values, the names are not read
Ok(probs) == [kind |-> "Ok", probs |-> probs, code |-> "None"]
Err(code) == [kind |-> "Err", probs |-> <<>>, code |-> code]
Panic == [kind |-> "Panic", probs |-> <<>>, code |-> "None"]

calculate_item_probabilities(values, price, checks) ==
    IF values = <<>> THEN Err("NoItemsProvided")
    ELSE IF RemainderPanics(RunningTotal(values, price), checks) THEN Panic
    ELSE LET probs == normalize_probabilities(values, price)
         IN  IF ~validate_probabilities(probs)
             THEN Err("InvalidProbabilityCalculation")
             ELSE Ok(probs)

NoResult == [kind |-> "None", probs |-> <<>>, code |-> "None"]

(***************************************************************************)
(* probability.rs: select_winning_item_index                               *)
(***************************************************************************)
\* a <= b and a < b for two u32 values
U32Leq(a, b) == IF (a < 0) = (b < 0) THEN a <= b ELSE b < 0

U32Lt(a, b) == ~U32Leq(b, a)

\* a + b does not fit a u32 (two values below 2^31 always fit)
U32Overflows(a, b) ==
    IF a < 0 /\ b < 0 THEN TRUE
    ELSE IF a < 0 \/ b < 0 THEN a + b >= 0
    ELSE FALSE

\* u32::saturating_add
saturating_add(a, b) == IF U32Overflows(a, b) THEN -1 ELSE a + b

\* probabilities.iter().sum() adds from the left: does one of the
\* additions overflow
SumOverflows(probabilities) ==
    \E k \in 1..Len(probabilities) :
        U32Overflows(SumSeq(SubSeq(probabilities, 1, k - 1)), probabilities[k])

\* Option<usize>, and the panic of an overflowing sum
SelSome(index) == [kind |-> "Some", index |-> index]
SelNone == [kind |-> "None", index |-> 0]
SelPanic == [kind |-> "Panic", index |-> 0]
NotCalled == [kind |-> "NotCalled", index |-> 0]

\* the seed is compared with the running sum as it is
RandomValueNoModulus(random_seed, total_weight) == random_seed

\* (random_seed % total_weight as u64) as u32, for a seed below 2^31: a
\* total of 2^31 or more leaves such a seed as it is
RandomValue(random_seed, total_weight) ==
    IF total_weight < 0 THEN random_seed ELSE random_seed % total_weight

\* the for loop from the entry at index (counted from 0) on
RECURSIVE Scan(_, _, _, _)
Scan(probabilities, index, cumulative_weight, random_value) ==
    IF index >= Len(probabilities) THEN SelNone
    ELSE LET cumulative == saturating_add(cumulative_weight, probabilities[index + 1])
         IN  IF U32Lt(random_value, cumulative) THEN SelSome(index)
             ELSE Scan(probabilities, index + 1, cumulative, random_value)

\* the total is a checked sum and an overflow gives None
select_winning_item_index_checked_sum(probabilities, random_seed, checks) ==
    IF SumOverflows(probabilities) THEN SelNone
    ELSE LET total_weight == SumSeq(probabilities)
         IN  IF total_weight = 0 THEN SelNone
             ELSE Scan(probabilities, 0, 0, RandomValue(random_seed, total_weight))

select_winning_item_index(probabilities, random_seed, checks) ==
    IF checks /\ SumOverflows(probabilities) THEN SelPanic
    ELSE LET total_weight == SumSeq(probabilities)
         IN  IF total_weight = 0 THEN SelNone
             ELSE Scan(probabilities, 0, 0, RandomValue(random_seed, total_weight))

(***************************************************************************)
(* lib.rs: accounts and instruction inputs                                 *)
(***************************************************************************)
Users == {"alice", "bob"}
CompanyNames == {"acme", "bolt"}
\* a string of 51 characters and one of 201 characters
LongName == "nnnnnnnnnnnnnnnnnnnnnnnnnnnnnnnnnnnnnnnnnnnnnnnnnnn"
LongUrl == "uuuuuuuuuuuuuuuuuuuuuuuuuuuuuuuuuuuuuuuuuuuuuuuuuuuuuuuuuuuuuuuuuuuuuuuuuuuuuuuuuuuuuuuuuuuuuuuuuuuuuuuuuuuuuuuuuuuuuuuuuuuuuuuuuuuuuuuuuuuuuuuuuuuuuuuuuuuuuuuuuuuuuuuuuuuuuuuuuuuuuuuuuuuuuuuuuuuuuuuuu"
CompanyNameInputs == CompanyNames \cup {LongName}

\* Rent::minimum_balance(0), a parameter of the cluster, in units
RentExemptMinimum == 1
\* lamports of a funded user when the program starts
InitialLamports == 8

ItemNames == <<"i1", "i2", "i3", "i4", "i5", "i6", "i7", "i8",
               "i9", "i10", "i11", "i12", "i13", "i14", "i15", "i16">>

\* how the strings of an item list are chosen
Schemes == {"distinct", "same_name", "long_name", "long_image", "long_description"}

\* PoolItemInput
PoolItemInput(value, i, scheme) ==
    [image       |-> IF scheme = "long_image" /\ i = 1 THEN LongUrl ELSE "img",
     price       |-> value,
     name        |-> IF scheme = "long_name" /\ i = 1 THEN LongName
                     ELSE IF scheme = "same_name" THEN "prize"
                     ELSE ItemNames[i],
     description |-> IF scheme = "long_description" /\ i = 1 THEN LongUrl ELSE "text"]

ItemInputs(values, scheme) ==
    [i \in 1..Len(values) |-> PoolItemInput(values[i], i, scheme)]

\* item lists offered to initialize_company_pool
PoolItemValues ==
    {<<>>, <<1>>, <<1, 100>>, <<1, 0>>, <<225, 225>>,
     Repeat(1, 4) \o <<225>>, Repeat(1, 6) \o <<225>>, Repeat(1, MaxItems + 1)}

\* the calls of initialize_company_pool: every list for "acme", one
\* well-formed call for "bolt", and one call for each string that is too long
InitializeArgs ==
    [authority     : Users,
     ticket_price  : Prices,
     company_name  : {"acme"},
     company_image : {"logo"},
     items         : {ItemInputs(v, "distinct") : v \in PoolItemValues}
                       \cup {ItemInputs(<<1, 100>>, "same_name")}]
    \cup
    [authority     : {"alice"},
     ticket_price  : {1},
     company_name  : {"bolt"},
     company_image : {"logo"},
     items         : {ItemInputs(<<1>>, "distinct")}]
    \cup
    [authority     : {"alice"},
     ticket_price  : {1},
     company_name  : {LongName},
     company_image : {"logo"},
     items         : {ItemInputs(<<1, 100>>, "distinct")}]
    \cup
    [authority     : {"alice"},
     ticket_price  : {1},
     company_name  : {"acme"},
     company_image : {LongUrl},
     items         : {ItemInputs(<<1, 100>>, "distinct")}]
    \cup
    [authority     : {"alice"},
     ticket_price  : {1},
     company_name  : {"acme"},
     company_image : {"logo"},
     items         : {ItemInputs(<<1, 100>>, sc) :
                         sc \in {"long_name", "long_image", "long_description"}}]

NoPool == [exists |-> FALSE]

\* at most MaxTickets tickets are sold
MaxTickets == 2

\* the pool tickets are bought in
TicketPools == {"acme"}

\* the address of a UserTicket account: the seeds of its PDA
TicketAddresses ==
    [buyer : Users, company_pool : TicketPools, ticket_id : 0..(MaxTickets - 1)]

\* the pools of the ticket runs: "acme" with a list whose last probability
\* wraps without overflow checks, a list whose first probability is 0 and
\* a list of equal names whose last probability is 0; "bolt"; and a call
\* that fails
TicketPoolArgs ==
    [authority     : {"alice"},
     ticket_price  : {1},
     company_name  : {"acme"},
     company_image : {"logo"},
     items         : {ItemInputs(Repeat(1, 6) \o <<225>>, "distinct"),
                      ItemInputs(<<225>> \o Repeat(1, 7), "distinct"),
                      ItemInputs(Repeat(1, 4) \o <<225>>, "same_name"),
                      ItemInputs(<<>>, "distinct")}]
    \cup
    [authority     : {"alice"},
     ticket_price  : {1},
     company_name  : {"bolt"},
     company_image : {"logo"},
     items         : {ItemInputs(<<1>>, "distinct")}]

NoTicket == [exists |-> FALSE]

\* Option<WonItem>
NoWonItem == [kind |-> "None"]

\* the ticket accounts handed to record_spin_result and claim_reward: the
\* first two tickets of a pool; the accounts "bob" could own are left out,
\* as "bob" starts without lamports
SpunTickets == {t \in TicketAddresses : t.buyer = "alice" /\ t.ticket_id < 2}

\* random_seed of record_spin_result: the clock and the slot make every
\* value possible
SpinSeeds == {0, 9999}

\* amount_to_withdraw
WithdrawAmounts == {0, 2}

Prices_of(items) == [i \in 1..Len(items) |-> items[i].price]

(***************************************************************************)
(* State                                                                   *)
(***************************************************************************)
VARIABLES
    overflow_checks,   \* the build: are integer overflow checks compiled in
    calc_items,        \* values of the items last handed to the allocator
    calc_price,        \* ticket price last handed to the allocator
    calc_result,       \* what calculate_item_probabilities returned
    company_pool,      \* company name -> CompanyPool account, or NoPool
    pool_vault,        \* company name -> lamports of the vault PDA
    lamports,          \* user -> lamports
    user_ticket,       \* ticket address -> UserTicket account, or NoTicket
    outcome,           \* the last instruction, its arguments and its result
    history,           \* the pools and tickets that instructions have created
    sel_probs,         \* probability vector handed to the selector
    sel_seed,          \* seed handed to the selector
    sel_result,        \* what select_winning_item_index returned
    sel_other,         \* what a call with other arguments returned since
    sel_again          \* what the call returned when it was repeated

vars == <<overflow_checks, calc_items, calc_price, calc_result,
          company_pool, pool_vault, lamports, user_ticket, outcome, history,
          sel_probs, sel_seed, sel_result, sel_other, sel_again>>

calc_vars == <<calc_items, calc_price, calc_result>>
sel_vars == <<sel_probs, sel_seed, sel_result, sel_other, sel_again>>
ledger_vars == <<company_pool, pool_vault, lamports, user_ticket, outcome, history>>

NoOutcome == [instr |-> "none", result |-> "none"]

(***************************************************************************)
(* lib.rs: initialize_company_pool                                         *)
(***************************************************************************)
\* the item of the list at which the validation loop stops, 0 when the
\* loop runs to its end
FirstInvalidItem(items) ==
    LET bad == {i \in 1..Len(items) :
                   \/ ~(items[i].price > 0)
                   \/ ~(Len(items[i].name) <= MaxNameLen)
                   \/ ~(Len(items[i].image) <= MaxUrlLen)
                   \/ ~(Len(items[i].description) <= MaxUrlLen)}
    IN  IF bad = {} THEN 0 ELSE CHOOSE i \in bad : \A j \in bad : i <= j

\* the validation without the check of the empty list
ValidateInputsNoEmptyCheck(a) ==
    IF ~(a.ticket_price > 0) THEN "InvalidTicketPrice"
    ELSE IF ~(Len(a.company_name) <= MaxNameLen) THEN "CompanyNameTooLong"
    ELSE IF ~(Len(a.company_image) <= MaxUrlLen) THEN "CompanyImageTooLong"
    ELSE IF ~(Len(a.items) <= MaxItems) THEN "TooManyItems"
    ELSE LET i == FirstInvalidItem(a.items)
         IN  IF i = 0 THEN "Ok"
             ELSE IF ~(a.items[i].price > 0) THEN "InvalidItemPrice"
             ELSE IF ~(Len(a.items[i].name) <= MaxNameLen) THEN "ItemNameTooLong"
             ELSE IF ~(Len(a.items[i].image) <= MaxUrlLen) THEN "ItemImageTooLong"
             ELSE "ItemDescriptionTooLong"

\* "Validate inputs" and "Validate all items before processing"
ValidateInputs(a) ==
    IF ~(a.ticket_price > 0) THEN "InvalidTicketPrice"
    ELSE IF a.items = <<>> THEN "NoItemsProvided"
    ELSE IF ~(Len(a.company_name) <= MaxNameLen) THEN "CompanyNameTooLong"
    ELSE IF ~(Len(a.company_image) <= MaxUrlLen) THEN "CompanyImageTooLong"
    ELSE IF ~(Len(a.items) <= MaxItems) THEN "TooManyItems"
    ELSE LET i == FirstInvalidItem(a.items)
         IN  IF i = 0 THEN "Ok"
             ELSE IF ~(a.items[i].price > 0) THEN "InvalidItemPrice"
             ELSE IF ~(Len(a.items[i].name) <= MaxNameLen) THEN "ItemNameTooLong"
             ELSE IF ~(Len(a.items[i].image) <= MaxUrlLen) THEN "ItemImageTooLong"
             ELSE "ItemDescriptionTooLong"

\* is the allocator reached (line 60)
ReachesAllocator(a) ==
    /\ company_pool[a.company_name] = NoPool
    /\ ValidateInputs(a) = "Ok"

AllocatorResult(a) ==
    calculate_item_probabilities(Prices_of(a.items), a.ticket_price, overflow_checks)

\* PoolItem
PoolItem(item, probability) ==
    [image       |-> item.image,
     price       |-> item.price,
     name        |-> item.name,
     description |-> item.description,
     probability |-> probability,
     available   |-> TRUE]

\* the CompanyPool account written by a successful call
NewPool(a, probabilities) ==
    [exists             |-> TRUE,
     authority          |-> a.authority,
     company_name       |-> a.company_name,
     company_image      |-> a.company_image,
     ticket_price       |-> a.ticket_price,
     items              |-> [i \in 1..Len(a.items) |-> PoolItem(a.items[i], probabilities[i])],
     total_value        |-> SumSeq(Prices_of(a.items)),
     total_tickets_sold |-> 0,
     total_funds        |-> 0,
     active             |-> TRUE]

\* does the vault need the rent-exempt minimum (line 104)
VaultNeedsRent(a) == pool_vault[a.company_name] < RentExemptMinimum

\* the result of the instruction: "Ok", an error code, or "Panic".
\* "AccountAlreadyInUse" is the failure of the init constraint of the pool
\* account, "InsufficientLamports" the failure of the transfer of line 111;
\* the rent the authority pays for the pool account itself is not counted.
InitializeResult(a) ==
    IF company_pool[a.company_name] # NoPool THEN "AccountAlreadyInUse"
    ELSE IF ValidateInputs(a) # "Ok" THEN ValidateInputs(a)
    ELSE LET r == AllocatorResult(a)
         IN  IF r.kind = "Panic" THEN "Panic"
             ELSE IF r.kind = "Err" THEN "InvalidProbabilityCalculation"
             ELSE IF SumSeq(Prices_of(a.items)) >= U64Limit THEN "MathOverflow"
             ELSE IF SumSeq(r.probs) # BasisPoints THEN "ProbabilitySumMismatch"
             ELSE IF VaultNeedsRent(a) /\ lamports[a.authority] < RentExemptMinimum
                  THEN "InsufficientLamports"
             ELSE "Ok"

\* An instruction that returns an error or panics aborts the transaction:
\* the fields written at lines 41-48 and 79-80 are kept only when the
\* handler returns Ok.
initialize_company_pool(a) ==
    LET result == InitializeResult(a)
    IN  /\ outcome' = [instr |-> "initialize_company_pool", args |-> a, result |-> result]
        /\ IF ReachesAllocator(a)
           THEN /\ calc_items' = Prices_of(a.items)
                /\ calc_price' = a.ticket_price
                /\ calc_result' = AllocatorResult(a)
           ELSE /\ calc_items' = <<>>
                /\ calc_price' = 0
                /\ calc_result' = NoResult
        /\ IF result = "Ok"
           THEN /\ company_pool' = [company_pool EXCEPT
                       ![a.company_name] = NewPool(a, AllocatorResult(a).probs)]
                /\ history' = history \cup {<<"initialize_company_pool", a.company_name>>}
                /\ IF VaultNeedsRent(a)
                   THEN /\ pool_vault' = [pool_vault EXCEPT
                               ![a.company_name] = @ + RentExemptMinimum]
                        /\ lamports' = [lamports EXCEPT
                               ![a.authority] = @ - RentExemptMinimum]
                   ELSE UNCHANGED <<pool_vault, lamports>>
           ELSE UNCHANGED <<company_pool, pool_vault, lamports, history>>
        /\ UNCHANGED <<overflow_checks, user_ticket, sel_vars>>

\* calculate_item_probabilities called on its own
DirectLists == {<<>>, <<1>>, <<0>>}

calculate_directly(values, price) ==
    /\ calc_items' = values
    /\ calc_price' = price
    /\ calc_result' = calculate_item_probabilities(values, price, overflow_checks)
    /\ outcome' = [instr |-> "calculate_item_probabilities", result |-> calc_result'.kind]
    /\ UNCHANGED <<overflow_checks, company_pool, pool_vault, lamports, user_ticket,
                   history, sel_vars>>

(***************************************************************************)
(* lib.rs: buy_ticket                                                      *)
(***************************************************************************)
\* An account handed to an instruction that does not exist fails to load
\* ("AccountNotInitialized"); the constraints of the Accounts struct are
\* checked in the order they are written, before the handler runs.

TicketsSold == Cardinality({t \in TicketAddresses : user_ticket[t] # NoTicket})

\* the PDA of the ticket a buyer is about to buy
TicketAddress(buyer, n) ==
    [buyer |-> buyer, company_pool |-> n, ticket_id |-> company_pool[n].total_tickets_sold]

\* ticket_id is read after total_tickets_sold was incremented
NewTicketIdAfterIncrement(buyer, n) ==
    [exists         |-> TRUE,
     owner          |-> buyer,
     company_pool   |-> n,
     used           |-> FALSE,
     ticket_id      |-> company_pool[n].total_tickets_sold + 1,
     won_item       |-> NoWonItem,
     reward_claimed |-> FALSE]

\* the UserTicket account written by buy_ticket (purchased_at, the clock,
\* is read by no instruction and is left out)
NewTicket(buyer, n) ==
    [exists         |-> TRUE,
     owner          |-> buyer,
     company_pool   |-> n,
     used           |-> FALSE,
     ticket_id      |-> company_pool[n].total_tickets_sold,
     won_item       |-> NoWonItem,
     reward_claimed |-> FALSE]

\* "InsufficientLamports" is the failure of the transfer of line 142; the
\* rent of the ticket account is not counted; total_tickets_sold stays far
\* below 2^64
BuyTicketResult(buyer, n) ==
    IF company_pool[n] = NoPool THEN "AccountNotInitialized"
    ELSE LET pool == company_pool[n]
         IN  IF user_ticket[TicketAddress(buyer, n)] # NoTicket THEN "AccountAlreadyInUse"
             ELSE IF ~pool.active THEN "PoolInactive"
             ELSE IF pool.items = <<>> THEN "NoItemsProvided"
             ELSE IF lamports[buyer] < pool.ticket_price THEN "InsufficientLamports"
             ELSE IF pool.total_funds + pool.ticket_price >= U64Limit THEN "MathOverflow"
             ELSE "Ok"

buy_ticket(buyer, n) ==
    LET result == BuyTicketResult(buyer, n)
    IN  /\ TicketsSold < MaxTickets
        /\ outcome' = [instr |-> "buy_ticket",
                       args |-> [buyer |-> buyer, company_pool |-> n],
                       result |-> result]
        /\ IF result = "Ok"
           THEN LET pool == company_pool[n]
                IN  /\ lamports' = [lamports EXCEPT ![buyer] = @ - pool.ticket_price]
                    /\ pool_vault' = [pool_vault EXCEPT ![n] = @ + pool.ticket_price]
                    /\ user_ticket' = [user_ticket EXCEPT
                           ![TicketAddress(buyer, n)] = NewTicket(buyer, n)]
                    /\ company_pool' = [company_pool EXCEPT
                           ![n].total_tickets_sold = @ + 1,
                           ![n].total_funds = @ + pool.ticket_price]
                    /\ history' = history \cup {<<"buy_ticket", TicketAddress(buyer, n)>>}
           ELSE UNCHANGED <<company_pool, pool_vault, lamports, user_ticket, history>>
        /\ UNCHANGED <<overflow_checks, calc_vars, sel_vars>>

(***************************************************************************)
(* lib.rs: withdraw_funds_from_vault                                       *)
(***************************************************************************)
\* the whole balance of the vault, the rent-exempt minimum included
AvailableBalanceNoRent(n) == pool_vault[n]

\* vault_balance.saturating_sub(rent_exempt_minimum)
AvailableBalance(n) ==
    IF pool_vault[n] < RentExemptMinimum THEN 0 ELSE pool_vault[n] - RentExemptMinimum

\* has_one = authority and the require of line 187 are missing
WithdrawResultNoAuthority(authority, n, amount_to_withdraw) ==
    IF company_pool[n] = NoPool THEN "AccountNotInitialized"
    ELSE LET pool == company_pool[n]
         IN  IF ~pool.active THEN "PoolInactive"
             ELSE IF ~(pool.total_funds > 0) THEN "NoFundsAvailable"
             ELSE IF ~(amount_to_withdraw > 0) THEN "InvalidAmount"
             ELSE IF ~(amount_to_withdraw <= pool.total_funds) THEN "InsufficientFunds"
             ELSE IF ~(amount_to_withdraw <= AvailableBalance(n)) THEN "InsufficientVaultFunds"
             ELSE "Ok"

WithdrawResult(authority, n, amount_to_withdraw) ==
    IF company_pool[n] = NoPool THEN "AccountNotInitialized"
    ELSE LET pool == company_pool[n]
         IN  IF pool.authority # authority THEN "UnauthorizedWithdrawal"
             ELSE IF ~pool.active THEN "PoolInactive"
             ELSE IF ~(pool.total_funds > 0) THEN "NoFundsAvailable"
             ELSE IF ~(amount_to_withdraw > 0) THEN "InvalidAmount"
             ELSE IF ~(amount_to_withdraw <= pool.total_funds) THEN "InsufficientFunds"
             ELSE IF ~(amount_to_withdraw <= AvailableBalance(n)) THEN "InsufficientVaultFunds"
             ELSE "Ok"

withdraw_funds_from_vault(authority, n, amount_to_withdraw) ==
    LET result == WithdrawResult(authority, n, amount_to_withdraw)
    IN  /\ outcome' = [instr |-> "withdraw_funds_from_vault",
                       args |-> [authority |-> authority, company_pool |-> n,
                                 amount_to_withdraw |-> amount_to_withdraw],
                       result |-> result]
        /\ IF result = "Ok"
           THEN /\ pool_vault' = [pool_vault EXCEPT ![n] = @ - amount_to_withdraw]
                /\ lamports' = [lamports EXCEPT ![authority] = @ + amount_to_withdraw]
                /\ company_pool' = [company_pool EXCEPT
                       ![n].total_funds = @ - amount_to_withdraw]
           ELSE UNCHANGED <<company_pool, pool_vault, lamports>>
        /\ UNCHANGED <<overflow_checks, calc_vars, sel_vars, user_ticket, history>>

(***************************************************************************)
(* lib.rs: record_spin_result                                              *)
(***************************************************************************)
\* available_items: the positions (counted from 1) of the items that are
\* available and have a probability above 0, in the order of the list
AvailableItems(items) ==
    SelectSeq([i \in 1..Len(items) |-> i],
              LAMBDA i : items[i].available /\ items[i].probability # 0)

\* the probabilities handed to the selector
AvailableProbabilities(items) ==
    LET available_items == AvailableItems(items)
    IN  [k \in 1..Len(available_items) |-> items[available_items[k]].probability]

\* item_index is the index of the filtered list
ActualIndexFiltered(available_items, winning_index) == winning_index

\* actual_index of available_items[winning_index], counted from 0
ActualIndex(available_items, winning_index) == available_items[winning_index + 1] - 1

\* the WonItem stored in the ticket
WonItem(items, winning_index) ==
    LET available_items == AvailableItems(items)
        winning_item == items[available_items[winning_index + 1]]
    IN  [kind        |-> "Some",
         name        |-> winning_item.name,
         price       |-> winning_item.price,
         image       |-> winning_item.image,
         description |-> winning_item.description,
         item_index  |-> ActualIndex(available_items, winning_index)]

\* the constraint !user_ticket.used and the require of line 263 are missing
SpinResultNoUsedCheck(spinner, n, t, random_seed) ==
    IF company_pool[n] = NoPool \/ user_ticket[t] = NoTicket THEN "AccountNotInitialized"
    ELSE LET pool == company_pool[n]
             ticket == user_ticket[t]
             selected == select_winning_item_index(AvailableProbabilities(pool.items),
                                                   random_seed, overflow_checks)
         IN  IF ~pool.active THEN "PoolInactive"
             ELSE IF ticket.owner # spinner THEN "NotTicketOwner"
             ELSE IF ticket.company_pool # n THEN "InvalidTicketPool"
             ELSE IF pool.items = <<>> THEN "NoItemsProvided"
             ELSE IF AvailableItems(pool.items) = <<>> THEN "NoAvailableItems"
             ELSE IF selected = SelPanic THEN "Panic"
             ELSE IF selected = SelNone THEN "ProbabilitySelectionFailed"
             ELSE "Ok"

SpinResult(spinner, n, t, random_seed) ==
    IF company_pool[n] = NoPool \/ user_ticket[t] = NoTicket THEN "AccountNotInitialized"
    ELSE LET pool == company_pool[n]
             ticket == user_ticket[t]
             selected == select_winning_item_index(AvailableProbabilities(pool.items),
                                                   random_seed, overflow_checks)
         IN  IF ~pool.active THEN "PoolInactive"
             ELSE IF ticket.owner # spinner THEN "NotTicketOwner"
             ELSE IF ticket.company_pool # n THEN "InvalidTicketPool"
             ELSE IF ticket.used THEN "TicketAlreadyUsed"
             ELSE IF pool.items = <<>> THEN "NoItemsProvided"
             ELSE IF AvailableItems(pool.items) = <<>> THEN "NoAvailableItems"
             ELSE IF selected = SelPanic THEN "Panic"
             ELSE IF selected = SelNone THEN "ProbabilitySelectionFailed"
             ELSE "Ok"

\* the owner of the ticket is not compared with the signer
record_spin_result_any_signer(spinner, n, t, random_seed) ==
    LET signer == IF user_ticket[t] # NoTicket THEN user_ticket[t].owner ELSE spinner
        result == SpinResult(signer, n, t, random_seed)
    IN  /\ outcome' = [instr |-> "record_spin_result",
                       args |-> [spinner |-> spinner, company_pool |-> n, user_ticket |-> t],
                       result |-> result]
        /\ IF result = "Ok"
           THEN LET items == company_pool[n].items
                    selected == select_winning_item_index(AvailableProbabilities(items),
                                                          random_seed, overflow_checks)
                IN  user_ticket' = [user_ticket EXCEPT
                        ![t].used = TRUE,
                        ![t].won_item = WonItem(items, selected.index)]
           ELSE UNCHANGED user_ticket
        /\ UNCHANGED <<overflow_checks, calc_vars, sel_vars,
                       company_pool, pool_vault, lamports, history>>

\* used = true (line 266) and won_item (line 302) are kept only when the
\* handler returns Ok
record_spin_result(spinner, n, t, random_seed) ==
    LET result == SpinResult(spinner, n, t, random_seed)
    IN  /\ outcome' = [instr |-> "record_spin_result",
                       args |-> [spinner |-> spinner, company_pool |-> n, user_ticket |-> t],
                       result |-> result]
        /\ IF result = "Ok"
           THEN LET items == company_pool[n].items
                    selected == select_winning_item_index(AvailableProbabilities(items),
                                                          random_seed, overflow_checks)
                IN  user_ticket' = [user_ticket EXCEPT
                        ![t].used = TRUE,
                        ![t].won_item = WonItem(items, selected.index)]
           ELSE UNCHANGED user_ticket
        /\ UNCHANGED <<overflow_checks, calc_vars, sel_vars,
                       company_pool, pool_vault, lamports, history>>

(***************************************************************************)
(* lib.rs: claim_reward                                                    *)
(***************************************************************************)
\* the constraint !user_ticket.reward_claimed and the require of line 358 are
\* missing
ClaimResultNoClaimedCheck(spinner, n, t) ==
    IF company_pool[n] = NoPool \/ user_ticket[t] = NoTicket THEN "AccountNotInitialized"
    ELSE LET pool == company_pool[n]
             ticket == user_ticket[t]
         IN  IF ~pool.active THEN "PoolInactive"
             ELSE IF ticket.owner # spinner THEN "NotTicketOwner"
             ELSE IF ticket.company_pool # n THEN "InvalidTicketPool"
             ELSE IF ~ticket.used THEN "TicketNotUsed"
             ELSE IF ticket.won_item = NoWonItem THEN "NoRewardToClaim"
             ELSE IF ~(ticket.won_item.price <= AvailableBalance(n))
                  THEN "InsufficientVaultFunds"
             ELSE "Ok"

ClaimResult(spinner, n, t) ==
    IF company_pool[n] = NoPool \/ user_ticket[t] = NoTicket THEN "AccountNotInitialized"
    ELSE LET pool == company_pool[n]
             ticket == user_ticket[t]
         IN  IF ~pool.active THEN "PoolInactive"
             ELSE IF ticket.owner # spinner THEN "NotTicketOwner"
             ELSE IF ticket.company_pool # n THEN "InvalidTicketPool"
             ELSE IF ~ticket.used THEN "TicketNotUsed"
             ELSE IF ticket.reward_claimed THEN "RewardAlreadyClaimed"
             ELSE IF ticket.won_item = NoWonItem THEN "NoRewardToClaim"
             ELSE IF ~(ticket.won_item.price <= AvailableBalance(n))
                  THEN "InsufficientVaultFunds"
             ELSE "Ok"

\* reward_claimed is written before the vault is looked at and is kept
\* when the handler returns InsufficientVaultFunds
claim_reward_no_rollback(spinner, n, t) ==
    LET result == ClaimResult(spinner, n, t)
    IN  /\ outcome' = [instr |-> "claim_reward",
                       args |-> [spinner |-> spinner, company_pool |-> n, user_ticket |-> t],
                       result |-> result]
        /\ IF result = "Ok"
           THEN LET reward_amount == user_ticket[t].won_item.price
                IN  /\ pool_vault' = [pool_vault EXCEPT ![n] = @ - reward_amount]
                    /\ lamports' = [lamports EXCEPT ![spinner] = @ + reward_amount]
                    /\ user_ticket' = [user_ticket EXCEPT ![t].reward_claimed = TRUE]
                    /\ company_pool' = [company_pool EXCEPT
                           ![n].total_funds =
                               IF @ < reward_amount THEN 0 ELSE @ - reward_amount]
           ELSE IF result = "InsufficientVaultFunds"
           THEN /\ user_ticket' = [user_ticket EXCEPT ![t].reward_claimed = TRUE]
                /\ UNCHANGED <<company_pool, pool_vault, lamports>>
           ELSE UNCHANGED <<company_pool, pool_vault, lamports, user_ticket>>
        /\ UNCHANGED <<overflow_checks, calc_vars, sel_vars, history>>

claim_reward(spinner, n, t) ==
    LET result == ClaimResult(spinner, n, t)
    IN  /\ outcome' = [instr |-> "claim_reward",
                       args |-> [spinner |-> spinner, company_pool |-> n, user_ticket |-> t],
                       result |-> result]
        /\ IF result = "Ok"
           THEN LET reward_amount == user_ticket[t].won_item.price
                IN  /\ pool_vault' = [pool_vault EXCEPT ![n] = @ - reward_amount]
                    /\ lamports' = [lamports EXCEPT ![spinner] = @ + reward_amount]
                    /\ user_ticket' = [user_ticket EXCEPT ![t].reward_claimed = TRUE]
                    /\ company_pool' = [company_pool EXCEPT
                           ![n].total_funds =
                               IF @ < reward_amount THEN 0 ELSE @ - reward_amount]
           ELSE UNCHANGED <<company_pool, pool_vault, lamports, user_ticket>>
        /\ UNCHANGED <<overflow_checks, calc_vars, sel_vars, history>>

(***************************************************************************)
(* probability.rs: the analysis of an item; lib.rs: get_probability_analysis *)
(***************************************************************************)
\* the items of a calculator built by WeightedProbabilityCalculator::new
\* from the names and prices of the pool items
CalculatorItems(items, ticket_price) ==
    LET probabilities == normalize_probabilities(Prices_of(items), ticket_price)
    IN  [i \in 1..Len(items) |->
            [name |-> items[i].name, value |-> items[i].price,
             probability |-> probabilities[i]]]

\* the first item of that name (0 when there is none)
FindItem(calculator_items, item_name) ==
    LET found == {i \in 1..Len(calculator_items) : calculator_items[i].name = item_name}
    IN  IF found = {} THEN 0 ELSE CHOOSE i \in found : \A j \in found : i <= j

\* the probability in basis points: the code divides it by 10000.0
get_probability_of_item(calculator_items, item_name) ==
    LET i == FindItem(calculator_items, item_name)
    IN  IF i = 0 THEN 0 ELSE calculator_items[i].probability

\* an f64 that is +infinity or 10000 / basis_points
Infinity == [finite |-> FALSE, basis_points |-> 0]
SpinsPer(basis_points) == [finite |-> TRUE, basis_points |-> basis_points]

get_expected_spins_for_item(calculator_items, item_name) ==
    LET probability == get_probability_of_item(calculator_items, item_name)
    IN  IF probability = 0 THEN Infinity ELSE SpinsPer(probability)

\* Option<ProfitabilityAnalysis>; expected_cost, profit and profit_ratio
\* are functions of the three fields kept here and of the ticket price
NoAnalysis == [kind |-> "None"]

get_profitability_analysis(calculator_items, item_name) ==
    LET i == FindItem(calculator_items, item_name)
        expected_spins == get_expected_spins_for_item(calculator_items, item_name)
    IN  IF i = 0 THEN NoAnalysis
        ELSE IF ~expected_spins.finite THEN NoAnalysis
        ELSE [kind           |-> "Some",
              item_name      |-> item_name,
              expected_spins |-> expected_spins,
              item_value     |-> calculator_items[i].value]

\* what the loop of get_probability_analysis gets for each item of the
\* pool: the expected spins and the analysis the calculator returns for
\* the name of the item
ItemAnalyses(pool) ==
    LET calculator_items == CalculatorItems(pool.items, pool.ticket_price)
    IN  [i \in 1..Len(pool.items) |->
            [expected_spins |-> get_expected_spins_for_item(calculator_items, pool.items[i].name),
             analysis       |-> get_profitability_analysis(calculator_items, pool.items[i].name)]]

\* the ProbabilityAnalysisEvent of an item
AnalysisEvent(item, analysis) ==
    [item_name                |-> item.name,
     item_value               |-> item.price,
     probability_basis_points |-> item.probability,
     expected_spins           |-> analysis.expected_spins]

\* the events emitted, in the order of the items
AnalysisEvents(pool) ==
    LET analyses == ItemAnalyses(pool)
        emitting == SelectSeq([i \in 1..Len(pool.items) |-> i],
                              LAMBDA i : analyses[i].analysis # NoAnalysis)
    IN  [k \in 1..Len(emitting) |->
            AnalysisEvent(pool.items[emitting[k]], analyses[emitting[k]].analysis)]

AnalysisResult(n) ==
    IF company_pool[n] = NoPool THEN "AccountNotInitialized"
    ELSE LET pool == company_pool[n]
         IN  IF RemainderPanics(RunningTotal(Prices_of(pool.items), pool.ticket_price),
                                overflow_checks)
             THEN "Panic"
             ELSE "Ok"

get_probability_analysis(n) ==
    LET result == AnalysisResult(n)
    IN  /\ outcome' = [instr |-> "get_probability_analysis",
                       args |-> [company_pool |-> n],
                       result |-> result,
                       analyses |-> IF result = "Ok" THEN ItemAnalyses(company_pool[n]) ELSE <<>>,
                       events |-> IF result = "Ok" THEN AnalysisEvents(company_pool[n]) ELSE <<>>]
        /\ UNCHANGED <<overflow_checks, calc_vars, sel_vars,
                       company_pool, pool_vault, lamports, user_ticket, history>>

(***************************************************************************)
(* The program                                                             *)
(***************************************************************************)
LedgerInit ==
    /\ company_pool = [n \in CompanyNameInputs |-> NoPool]
    /\ \E prefunded \in {0, RentExemptMinimum} :
           pool_vault = [n \in CompanyNameInputs |-> IF n = "acme" THEN prefunded ELSE 0]
    /\ lamports = [u \in Users |-> IF u = "alice" THEN InitialLamports ELSE 0]
    /\ user_ticket = [t \in TicketAddresses |-> NoTicket]
    /\ outcome = NoOutcome
    /\ history = {}

\* no call of the selector on its own
SelIdle ==
    /\ sel_probs = <<>>
    /\ sel_seed = 0
    /\ sel_result = NotCalled
    /\ sel_other = NotCalled
    /\ sel_again = NotCalled

Init ==
    /\ overflow_checks \in BOOLEAN
    /\ calc_items = <<>>
    /\ calc_price = 0
    /\ calc_result = NoResult
    /\ SelIdle
    /\ LedgerInit

Next ==
    \/ \E a \in InitializeArgs : initialize_company_pool(a)
    \/ \E values \in DirectLists, price \in Prices : calculate_directly(values, price)

Spec == Init /\ [][Next]_vars

(***************************************************************************)
(* The allocator as a function of its inputs                               *)
(***************************************************************************)
AllocInit ==
    /\ overflow_checks \in BOOLEAN
    /\ calc_items \in ItemLists
    /\ calc_price \in Prices
    /\ calc_result = NoResult
    /\ company_pool = [n \in CompanyNameInputs |-> NoPool]
    /\ pool_vault = [n \in CompanyNameInputs |-> 0]
    /\ lamports = [u \in Users |-> IF u = "alice" THEN InitialLamports ELSE 0]
    /\ user_ticket = [t \in TicketAddresses |-> NoTicket]
    /\ outcome = NoOutcome
    /\ history = {}
    /\ SelIdle

CallCalculate ==
    /\ calc_result = NoResult
    /\ calc_result' = calculate_item_probabilities(calc_items, calc_price, overflow_checks)
    /\ UNCHANGED <<overflow_checks, calc_items, calc_price, ledger_vars, sel_vars>>

AllocNext == CallCalculate

AllocSpec == AllocInit /\ [][AllocNext]_vars

(***************************************************************************)
(* The instructions on tickets, on a few pools                             *)
(***************************************************************************)
\* a pool account and a ticket account exist before any instruction ran
TicketInitWithAccounts ==
    /\ overflow_checks \in BOOLEAN
    /\ calc_items = <<>>
    /\ calc_price = 0
    /\ calc_result = NoResult
    /\ SelIdle
    /\ company_pool = [n \in CompanyNameInputs |->
           IF n = "acme"
           THEN NewPool([authority |-> "alice", ticket_price |-> 1, company_name |-> "acme",
                         company_image |-> "logo", items |-> ItemInputs(<<1>>, "distinct")],
                        <<BasisPoints>>)
           ELSE NoPool]
    /\ pool_vault = [n \in CompanyNameInputs |-> 0]
    /\ lamports = [u \in Users |-> IF u = "alice" THEN InitialLamports ELSE 0]
    /\ user_ticket = [t \in TicketAddresses |->
           IF t = [buyer |-> "alice", company_pool |-> "acme", ticket_id |-> 1]
           THEN [exists |-> TRUE, owner |-> "alice", company_pool |-> "acme",
                 used |-> FALSE, ticket_id |-> 1, won_item |-> NoWonItem,
                 reward_claimed |-> FALSE]
           ELSE NoTicket]
    /\ outcome = NoOutcome
    /\ history = {}

TicketInit ==
    /\ overflow_checks \in BOOLEAN
    /\ calc_items = <<>>
    /\ calc_price = 0
    /\ calc_result = NoResult
    /\ SelIdle
    /\ company_pool = [n \in CompanyNameInputs |-> NoPool]
    /\ pool_vault = [n \in CompanyNameInputs |-> 0]
    /\ lamports = [u \in Users |-> IF u = "alice" THEN InitialLamports ELSE 0]
    /\ user_ticket = [t \in TicketAddresses |-> NoTicket]
    /\ outcome = NoOutcome
    /\ history = {}

TicketNext ==
    \/ \E a \in TicketPoolArgs : initialize_company_pool(a)
    \/ \E buyer \in Users, n \in TicketPools : buy_ticket(buyer, n)
    \/ \E authority \in Users, n \in TicketPools, amount \in WithdrawAmounts :
          withdraw_funds_from_vault(authority, n, amount)
    \/ \E spinner \in Users, n \in CompanyNames, t \in SpunTickets,
          random_seed \in SpinSeeds :
          record_spin_result(spinner, n, t, random_seed)
    \/ \E spinner \in Users, n \in CompanyNames, t \in SpunTickets :
          claim_reward(spinner, n, t)
    \/ \E n \in CompanyNames : get_probability_analysis(n)

TicketSpec == TicketInit /\ [][TicketNext]_vars

(***************************************************************************)
(* The instructions on tickets with two buyers and a vault that may hold   *)
(* lamports before its pool is created                                     *)
(***************************************************************************)
\* lamports sent to the address of the vault before initialize_company_pool
PrefundedVault == {0, 3}

\* the pool of these runs: a reward the vault can pay and one it cannot
MarketPoolArgs ==
    [authority     : {"alice"},
     ticket_price  : {1},
     company_name  : {"acme"},
     company_image : {"logo"},
     items         : {ItemInputs(<<1, 100>>, "distinct")}]

\* the ticket accounts handed to record_spin_result and claim_reward: the
\* first two tickets of the pool, whoever bought them
MarketTickets == {t \in TicketAddresses : t.ticket_id < 2}

\* amount_to_withdraw
MarketWithdrawAmounts == {1, 2}

\* "bob" holds the price of one ticket
MarketInit ==
    /\ overflow_checks \in BOOLEAN
    /\ calc_items = <<>>
    /\ calc_price = 0
    /\ calc_result = NoResult
    /\ SelIdle
    /\ company_pool = [n \in CompanyNameInputs |-> NoPool]
    /\ \E prefunded \in PrefundedVault :
           pool_vault = [n \in CompanyNameInputs |-> IF n = "acme" THEN prefunded ELSE 0]
    /\ lamports = [u \in Users |-> IF u = "alice" THEN InitialLamports ELSE 1]
    /\ user_ticket = [t \in TicketAddresses |-> NoTicket]
    /\ outcome = NoOutcome
    /\ history = {}

MarketNext ==
    \/ \E a \in MarketPoolArgs : initialize_company_pool(a)
    \/ \E buyer \in Users, n \in TicketPools : buy_ticket(buyer, n)
    \/ \E authority \in Users, n \in TicketPools, amount \in MarketWithdrawAmounts :
          withdraw_funds_from_vault(authority, n, amount)
    \/ \E spinner \in Users, n \in TicketPools, t \in MarketTickets,
          random_seed \in SpinSeeds :
          record_spin_result(spinner, n, t, random_seed)
    \/ \E spinner \in Users, n \in TicketPools, t \in MarketTickets :
          claim_reward(spinner, n, t)

MarketSpec == MarketInit /\ [][MarketNext]_vars

(***************************************************************************)
(* The selector as a function of its inputs                                *)
(***************************************************************************)
\* vectors of at most MaxVectorLen small weights
MaxVectorLen == 3
SmallWeights == {0, 1, 2, 3}

\* item lists whose allocation at ticket price 1 is handed to the selector
AllocatedLists ==
    {<<1>>, <<1, 100>>, Repeat(1, 4) \o <<225>>, Repeat(1, 6) \o <<225>>}

\* the vector of test_random_selection_distribution
TestVector == <<7000, 2000, 1000>>

\* the vectors handed to the selector: small ones, the vector of the test,
\* and the vectors the allocator of this build returns
SelectorVectors(checks) ==
    TuplesUpTo(SmallWeights, MaxVectorLen)
      \cup {TestVector}
      \cup {calculate_item_probabilities(v, 1, checks).probs : v \in AllocatedLists}

\* seeds (all below 2^31)
SelectorSeeds == 0..7 \cup {1666, 1667, 6999, 7000, 9999, 10000, 12345, 1073741824}

\* the arguments of the calls made between a call and its repetition
OtherVectors == {<<>>, <<0, 1>>, <<1, 2, 3>>, TestVector}
OtherSeeds == {0, 5, 7000}

SelectInit ==
    /\ overflow_checks \in BOOLEAN
    /\ calc_items = <<>>
    /\ calc_price = 0
    /\ calc_result = NoResult
    /\ LedgerInit
    /\ sel_probs \in SelectorVectors(overflow_checks)
    /\ sel_seed \in SelectorSeeds
    /\ sel_result = NotCalled
    /\ sel_other = NotCalled
    /\ sel_again = NotCalled

\* the call
CallSelect ==
    /\ sel_result = NotCalled
    /\ sel_result' = select_winning_item_index(sel_probs, sel_seed, overflow_checks)
    /\ UNCHANGED <<overflow_checks, calc_vars, ledger_vars,
                   sel_probs, sel_seed, sel_other, sel_again>>

\* a call with other arguments after the first call
CallOther(probabilities, random_seed) ==
    /\ sel_result # NotCalled
    /\ sel_again = NotCalled
    /\ sel_other' = select_winning_item_index(probabilities, random_seed, overflow_checks)
    /\ UNCHANGED <<overflow_checks, calc_vars, ledger_vars,
                   sel_probs, sel_seed, sel_result, sel_again>>

\* the repeated call draws from a generator the calls in between advanced
CallAgainSharedGenerator ==
    /\ sel_result # NotCalled
    /\ sel_again' = select_winning_item_index(sel_probs,
                        sel_seed + (IF sel_other.kind = "Some" THEN sel_other.index ELSE 0),
                        overflow_checks)
    /\ UNCHANGED <<overflow_checks, calc_vars, ledger_vars,
                   sel_probs, sel_seed, sel_result, sel_other>>

\* the first call repeated: its result had been discarded
CallAgain ==
    /\ sel_result # NotCalled
    /\ sel_again' = select_winning_item_index(sel_probs, sel_seed, overflow_checks)
    /\ UNCHANGED <<overflow_checks, calc_vars, ledger_vars,
                   sel_probs, sel_seed, sel_result, sel_other>>

SelectNext ==
    \/ CallSelect
    \/ \E probabilities \in OtherVectors, random_seed \in OtherSeeds :
          CallOther(probabilities, random_seed)
    \/ CallAgain

SelectSpec == SelectInit /\ [][SelectNext]_vars

(***************************************************************************)
(* Properties of the allocator (AllocSpec)                                 *)
(***************************************************************************)
Called == calc_result.kind # "None"

Succeeded == calc_result.kind = "Ok"

ValidAllocInput ==
    /\ Len(calc_items) \in 1..MaxItems
    /\ \A i \in 1..Len(calc_items) : calc_items[i] > 0
    /\ calc_price > 0

AllEqual(values) == \A i \in 1..Len(values) : values[i] = values[1]

Abs(x) == IF x < 0 THEN -x ELSE x

\* every entry is a basis-point value and the entries add up to 10000
\* (an entry of 2^31 or more is written as a negative number)
IsExactVector(probs) ==
    /\ \A i \in 1..Len(probs) : probs[i] \in 0..BasisPoints
    /\ SumSeq(probs) = BasisPoints

\* C1: for every list of 1 to 10 items with positive values and every
\* positive ticket price, calculate_item_probabilities succeeds and the
\* vector it returns sums to exactly 10000
C1_ExactSum ==
    (Called /\ ValidAllocInput) =>
        /\ Succeeded
        /\ Len(calc_result.probs) = Len(calc_items)
        /\ IsExactVector(calc_result.probs)

\* C2: every entry of a vector produced for valid inputs is at least 1
\* basis point
C2_MinimumFloor ==
    (Called /\ ValidAllocInput /\ Succeeded) =>
        \A i \in 1..Len(calc_result.probs) : calc_result.probs[i] # 0

\* C3 as stated: value_i > value_j implies probability_i <= probability_j
\* for any two items of the list, the last one included
C3_Monotonic ==
    (Called /\ ValidAllocInput /\ Succeeded) =>
        \A i, j \in 1..Len(calc_items) :
            calc_items[i] > calc_items[j] =>
                U32Leq(calc_result.probs[i], calc_result.probs[j])

\* C3 as amended: value_i > value_j implies probability_i <= probability_j
\* for any two items neither of which is the last item of the list
C3_MonotonicBeforeLast ==
    (Called /\ ValidAllocInput /\ Succeeded) =>
        \A i, j \in 1..(Len(calc_items) - 1) :
            calc_items[i] > calc_items[j] =>
                U32Leq(calc_result.probs[i], calc_result.probs[j])

\* two items before the last one are ordered, and the last item has both a
\* higher value and a higher probability than one of them
C3_Witness ==
    /\ Called /\ Succeeded /\ ValidAllocInput
    /\ LET n == Len(calc_items)
       IN  /\ \E i, j \in 1..(n - 1) :
                 /\ calc_items[i] > calc_items[j]
                 /\ calc_result.probs[i] < calc_result.probs[j]
           /\ \E j \in 1..(n - 1) :
                 /\ calc_items[n] > calc_items[j]
                 /\ calc_result.probs[n] > calc_result.probs[j]
                 /\ calc_result.probs[j] > 0

\* C4 as stated: for n items of the same value every probability is within
\* 1 basis point of 10000/n and only the last entry may differ from the rest
C4_EqualValues ==
    (Called /\ ValidAllocInput /\ AllEqual(calc_items)) =>
        LET n == Len(calc_items)
            probs == calc_result.probs
        IN  /\ Succeeded
            /\ \A i \in 1..n : Abs(n * probs[i] - BasisPoints) <= n
            /\ \A i \in 1..(n - 1) : probs[i] = probs[1]

\* C4 as amended: for n items of the same value the first n-1 probabilities
\* are equal and within 1 basis point of 10000/n, and the last one is 10000
\* minus their sum, which is within n-1 basis points of 10000/n
C4_EqualValuesRemainder ==
    (Called /\ ValidAllocInput /\ AllEqual(calc_items)) =>
        LET n == Len(calc_items)
            probs == calc_result.probs
        IN  /\ Succeeded
            /\ \A i \in 1..(n - 1) :
                  /\ probs[i] = probs[1]
                  /\ Abs(n * probs[i] - BasisPoints) <= n
            /\ probs[n] = BasisPoints - SumSeq(SubSeq(probs, 1, n - 1))
            /\ Abs(n * probs[n] - BasisPoints) <= n * (n - 1)

\* equal values whose last probability is more than 1 basis point away
\* from 10000/n
C4_Witness ==
    /\ Called /\ Succeeded /\ ValidAllocInput /\ AllEqual(calc_items)
    /\ LET n == Len(calc_items)
       IN  Abs(n * calc_result.probs[n] - BasisPoints) > n

\* C5: a list of one item yields the vector <<10000>>
C5_SingleItem ==
    (Called /\ ValidAllocInput /\ Len(calc_items) = 1) =>
        calc_result = Ok(<<BasisPoints>>)

\* one item worth more than the ticket has been allocated
C5_Witness ==
    /\ Called /\ Succeeded /\ ValidAllocInput
    /\ Len(calc_items) = 1
    /\ calc_items[1] > calc_price

\* C6: the final probability of the last item differs from its
\* independently rounded share by at most n-1 basis points
C6_LastItemBias ==
    (Called /\ ValidAllocInput /\ Succeeded) =>
        LET n == Len(calc_items)
        IN  /\ calc_result.probs[n] >= 0
            /\ Abs(calc_result.probs[n] - RoundedShares(calc_items, calc_price)[n]) <= n - 1

\* C7: for valid inputs the allocator neither faults nor wraps: the running
\* total of the rescaled entries never exceeds 10000 and every entry
\* returned lies in 0..10000
C7_NoFaultNoWrap ==
    (Called /\ ValidAllocInput) =>
        /\ calc_result.kind \in {"Ok", "Err"}
        /\ RunningTotal(calc_items, calc_price) <= BasisPoints
        /\ \A i \in 1..Len(calc_result.probs) : calc_result.probs[i] \in 0..BasisPoints

\* C9: the allocator returns no vector for a list with a zero value or for
\* a ticket price of 0
C9_ZeroRejected ==
    (Called /\ (calc_price = 0 \/ \E i \in 1..Len(calc_items) : calc_items[i] = 0)) =>
        calc_result.kind = "Err"

(***************************************************************************)
(* Properties of initialize_company_pool (Spec)                            *)
(***************************************************************************)
LastInitialize == outcome.instr = "initialize_company_pool"

\* C8 as stated: allocation over an empty list fails with NoItemsProvided
\* and yields no vector, called directly or through initialize_company_pool
C8_EmptyListError ==
    /\ (outcome.instr = "calculate_item_probabilities" /\ calc_items = <<>>) =>
           calc_result = Err("NoItemsProvided")
    /\ (LastInitialize /\ outcome.args.items = <<>>) =>
           /\ outcome.result = "NoItemsProvided"
           /\ calc_result.kind # "Ok"

\* C8 as amended: called directly the allocator fails with NoItemsProvided;
\* initialize_company_pool with an empty list yields no vector and fails
\* with NoItemsProvided unless the pool account already exists or the ticket
\* price is 0, which are reported first
C8_EmptyListFails ==
    /\ (outcome.instr = "calculate_item_probabilities" /\ calc_items = <<>>) =>
           calc_result = Err("NoItemsProvided")
    /\ (LastInitialize /\ outcome.args.items = <<>>) =>
           /\ calc_result.kind # "Ok"
           /\ outcome.result =
                 IF company_pool[outcome.args.company_name] # NoPool
                 THEN "AccountAlreadyInUse"
                 ELSE IF outcome.args.ticket_price = 0 THEN "InvalidTicketPrice"
                 ELSE "NoItemsProvided"

\* an empty list was rejected by initialize_company_pool for a new pool
\* with a positive ticket price
C8_Witness ==
    /\ LastInitialize
    /\ outcome.args.items = <<>>
    /\ outcome.args.ticket_price > 0
    /\ company_pool[outcome.args.company_name] = NoPool
    /\ outcome.result = "NoItemsProvided"

\* C10: a failed initialize_company_pool commits nothing; a successful one
\* commits one probability per item, aligned with the input list, summing
\* to 10000
C10_AllOrNothing ==
    [][(outcome'.instr = "initialize_company_pool") =>
          IF outcome'.result = "Ok"
          THEN LET a == outcome'.args
                   pool == company_pool'[a.company_name]
               IN  /\ pool.exists
                   /\ Len(pool.items) = Len(a.items)
                   /\ \A i \in 1..Len(a.items) :
                         /\ pool.items[i].name = a.items[i].name
                         /\ pool.items[i].price = a.items[i].price
                         /\ pool.items[i].probability = calc_result'.probs[i]
                   /\ IsExactVector([i \in 1..Len(pool.items) |-> pool.items[i].probability])
          ELSE UNCHANGED <<company_pool, pool_vault, lamports>>]_vars

(***************************************************************************)
(* Properties of the selector (SelectSpec)                                 *)
(***************************************************************************)
Selected == sel_result # NotCalled

\* the sum of the entries is 0 (no u32 is negative)
AllZero(probs) == \A i \in 1..Len(probs) : probs[i] = 0

\* an entry of 2^31 or more
HasWrapped(probs) == \E i \in 1..Len(probs) : probs[i] < 0

\* C11: the selector returns None exactly when the sum of the vector is 0,
\* and otherwise returns an index i with 0 <= i < length of the vector
C11_SelectorTotal ==
    Selected =>
        IF AllZero(sel_probs) THEN sel_result = SelNone
        ELSE /\ sel_result.kind = "Some"
             /\ sel_result.index \in 0..(Len(sel_probs) - 1)

\* a seed of at least the sum selected an entry that follows a zero entry
C11_Witness ==
    /\ Selected
    /\ ~HasWrapped(sel_probs)
    /\ SumSeq(sel_probs) > 0
    /\ sel_seed >= SumSeq(sel_probs)
    /\ sel_probs[1] = 0
    /\ sel_result.kind = "Some"
    /\ sel_result.index > 0

\* seed mod total for the sum of the entries as natural numbers: a vector
\* with an entry of 2^31 or more has a sum above every seed below 2^31
Draw(probs, seed) == IF HasWrapped(probs) THEN seed ELSE seed % SumSeq(probs)

\* probs[0] + ... + probs[i-1] > x as natural numbers, for x below 2^31
PrefixExceeds(probs, i, x) ==
    \/ HasWrapped(SubSeq(probs, 1, i))
    \/ SumSeq(SubSeq(probs, 1, i)) > x

\* C12: for a vector with sum total > 0 the selector returns the smallest
\* index i with probabilities[0] + ... + probabilities[i] > seed mod total
\* (so the result is a function of seed mod total, and an entry of weight 0
\* is never returned)
C12_FirstExceeding ==
    (Selected /\ ~AllZero(sel_probs)) =>
        LET draw == Draw(sel_probs, sel_seed)
            exceeding == {i \in 1..Len(sel_probs) : PrefixExceeds(sel_probs, i, draw)}
        IN  /\ exceeding # {}
            /\ sel_result = SelSome((CHOOSE i \in exceeding : \A j \in exceeding : i <= j) - 1)
            /\ sel_probs[sel_result.index + 1] # 0

\* how often each index is returned for the seeds first .. first + count - 1:
\* a function from the index (counted from 0) to the number of seeds
TimesReturned(probs, first, count) ==
    LET winner == [k \in 0..(count - 1) |->
                      select_winning_item_index(probs, first + k, overflow_checks)]
    IN  [i \in 0..(Len(probs) - 1) |->
            Cardinality({k \in 0..(count - 1) : winner[k] = SelSome(i)})]

\* C13: over total consecutive seeds, total > 0 the sum of the vector,
\* each index i is returned exactly probabilities[i] times, and for the
\* vector <<7000, 2000, 1000>> and the seeds 0..9999 the counts are within
\* 5% of the entries.  A vector with an entry of 2^31 or more has a sum
\* above 2^32: for it the counts are taken over 20000 consecutive seeds,
\* fewer than total, among which no index may be returned more often than
\* its entry says.
C13_Fidelity ==
    (Selected /\ sel_other = NotCalled /\ sel_again = NotCalled /\ ~AllZero(sel_probs)) =>
        /\ IF HasWrapped(sel_probs)
           THEN LET times == TimesReturned(sel_probs, sel_seed, 2 * BasisPoints)
                IN  \A i \in 0..(Len(sel_probs) - 1) : U32Leq(times[i], sel_probs[i + 1])
           ELSE LET times == TimesReturned(sel_probs, sel_seed, SumSeq(sel_probs))
                IN  \A i \in 0..(Len(sel_probs) - 1) : times[i] = sel_probs[i + 1]
        /\ sel_probs = TestVector =>
              LET times == TimesReturned(TestVector, 0, BasisPoints)
              IN  \A i \in 0..2 : 20 * Abs(times[i] - TestVector[i + 1]) <= TestVector[i + 1]

SpinsTicket(t) ==
    /\ outcome'.instr = "record_spin_result"
    /\ outcome'.args.user_ticket = t

Used(t) == user_ticket[t] # NoTicket /\ user_ticket[t].used

\* the used flag and the won item of a used ticket stay as they are
Frozen(t) ==
    /\ user_ticket'[t] # NoTicket
    /\ user_ticket'[t].used
    /\ user_ticket'[t].won_item = user_ticket[t].won_item

\* C15 as stated: once a ticket is used, every record_spin_result on it
\* fails with TicketAlreadyUsed, and its used flag and won_item never change
C15_ConsumedOnce ==
    [][\A t \in TicketAddresses :
          Used(t) =>
              /\ Frozen(t)
              /\ SpinsTicket(t) => outcome'.result = "TicketAlreadyUsed"]_vars

\* C15 as amended: once a ticket is used, every record_spin_result on it
\* fails, with TicketAlreadyUsed when its owner spins it in its own pool
\* (another signer gets NotTicketOwner, another pool InvalidTicketPool or
\* AccountNotInitialized), and its used flag and won_item never change
C15_ConsumedOnceFails ==
    [][\A t \in TicketAddresses :
          Used(t) =>
              /\ Frozen(t)
              /\ SpinsTicket(t) =>
                    /\ outcome'.result \in {"TicketAlreadyUsed", "NotTicketOwner",
                                            "InvalidTicketPool", "AccountNotInitialized"}
                    /\ (/\ outcome'.args.spinner = user_ticket[t].owner
                        /\ outcome'.args.company_pool = user_ticket[t].company_pool)
                          => outcome'.result = "TicketAlreadyUsed"]_vars

\* the owner has spun a used ticket again, in its pool, and was refused
C15_Witness ==
    /\ outcome.instr = "record_spin_result"
    /\ outcome.result = "TicketAlreadyUsed"
    /\ Used(outcome.args.user_ticket)
    /\ outcome.args.spinner = user_ticket[outcome.args.user_ticket].owner
    /\ user_ticket[outcome.args.user_ticket].won_item # NoWonItem

\* the stored probabilities of a pool
StoredProbabilities(pool) == [i \in 1..Len(pool.items) |-> pool.items[i].probability]

\* C17: no instruction changes the items of an existing pool (probability,
\* value, name), and the stored probabilities of every pool that exists
\* sum to 10000
C17_ReadOnlyVector ==
    [][\A n \in CompanyNames :
          /\ company_pool[n] # NoPool => company_pool'[n].items = company_pool[n].items
          /\ company_pool'[n] # NoPool =>
                IsExactVector(StoredProbabilities(company_pool'[n]))]_vars

\* C18: a successful record_spin_result is preceded by a successful
\* initialize_company_pool of its pool and a successful buy_ticket of its
\* ticket, and the pool it selects from holds a committed vector
C18_Ordering ==
    (outcome.instr = "record_spin_result" /\ outcome.result = "Ok") =>
        /\ <<"initialize_company_pool", outcome.args.company_pool>> \in history
        /\ <<"buy_ticket", outcome.args.user_ticket>> \in history
        /\ company_pool[outcome.args.company_pool] # NoPool
        /\ Len(company_pool[outcome.args.company_pool].items) > 0

\* the second ticket of a pool has been spun with success
C18_Witness ==
    /\ outcome.instr = "record_spin_result"
    /\ outcome.result = "Ok"
    /\ outcome.args.user_ticket.ticket_id = 1
    /\ <<"buy_ticket", outcome.args.user_ticket>> \in history

Analysed == outcome.instr = "get_probability_analysis" /\ outcome.result = "Ok"

\* C19: for an item of probability 0 the expected spins are +infinity and
\* no analysis is reported; for an item of probability > 0 an analysis is
\* reported
C19_ZeroProbability ==
    Analysed =>
        LET pool == company_pool[outcome.args.company_pool]
        IN  \A i \in 1..Len(pool.items) :
                IF pool.items[i].probability = 0
                THEN /\ outcome.analyses[i].expected_spins = Infinity
                     /\ outcome.analyses[i].analysis = NoAnalysis
                ELSE outcome.analyses[i].analysis # NoAnalysis

SpinSucceeded == outcome.instr = "record_spin_result" /\ outcome.result = "Ok"

\* C20: after a successful record_spin_result the item_index of the won
\* item is an index of the full item list of the pool, the item there is
\* available and has a probability above 0, and name and price of the won
\* item are those of that item
C20_WonItemIndex ==
    SpinSucceeded =>
        LET ticket == user_ticket[outcome.args.user_ticket]
            items == company_pool[outcome.args.company_pool].items
            won == ticket.won_item
        IN  /\ ticket.used
            /\ won # NoWonItem
            /\ won.item_index \in 0..(Len(items) - 1)
            /\ items[won.item_index + 1].available
            /\ items[won.item_index + 1].probability # 0
            /\ won.name = items[won.item_index + 1].name
            /\ won.price = items[won.item_index + 1].price

\* an item was won in a pool whose first item has probability 0, so that
\* the index of the full list is not the index of the filtered list
C20_Witness ==
    /\ SpinSucceeded
    /\ LET items == company_pool[outcome.args.company_pool].items
           won == user_ticket[outcome.args.user_ticket].won_item
       IN  /\ items[1].probability = 0
           /\ won.item_index >= 1
           /\ AvailableItems(items)[1] = 2

(***************************************************************************)
(* Properties of the analysis, the vault and the tickets                   *)
(***************************************************************************)
\* C21: every analysis get_probability_analysis reports for an item of the
\* pool is computed from the stored probability of that item and from its
\* own value: expected_spins is 10000 / item.probability and item_value is
\* item.price, also when items of the pool have the same name
C21_OwnProbability ==
    Analysed =>
        LET pool == company_pool[outcome.args.company_pool]
        IN  \A i \in 1..Len(pool.items) :
                outcome.analyses[i].analysis # NoAnalysis =>
                    /\ outcome.analyses[i].analysis.expected_spins
                           = SpinsPer(pool.items[i].probability)
                    /\ outcome.analyses[i].analysis.item_value = pool.items[i].price

\* the step is a call of claim_reward on ticket t
ClaimsTicket(t) ==
    /\ outcome'.instr = "claim_reward"
    /\ outcome'.args.user_ticket = t

Claimed(t) == user_ticket[t] # NoTicket /\ user_ticket[t].reward_claimed

\* a claimed ticket was spun and holds a won item
ClaimedIsSpun(t) ==
    (user_ticket[t] # NoTicket /\ user_ticket[t].reward_claimed) =>
        /\ user_ticket[t].used
        /\ user_ticket[t].won_item # NoWonItem

\* a successful claim_reward on t is made on a spun, unclaimed ticket and
\* sets reward_claimed, which is never cleared: the vault pays once
PaysOnce(t) ==
    /\ Claimed(t) => (user_ticket'[t] # NoTicket /\ user_ticket'[t].reward_claimed)
    /\ (ClaimsTicket(t) /\ outcome'.result = "Ok") =>
          /\ Used(t)
          /\ ~Claimed(t)
          /\ user_ticket'[t].reward_claimed
          /\ pool_vault'[t.company_pool]
                 = pool_vault[t.company_pool] - user_ticket[t].won_item.price
    /\ (ClaimsTicket(t) /\ Claimed(t)) => pool_vault' = pool_vault

\* C22 as stated: reward_claimed implies used and a won item; claim_reward
\* on a ticket that was not spun fails with TicketNotUsed, on a claimed
\* ticket with RewardAlreadyClaimed (the pool account given exists); the
\* vault pays won_item.price at most once per ticket
C22_ClaimedOnce ==
    [][\A t \in TicketAddresses :
          /\ ClaimedIsSpun(t)
          /\ PaysOnce(t)
          /\ (/\ ClaimsTicket(t)
              /\ user_ticket[t] # NoTicket
              /\ company_pool[outcome'.args.company_pool] # NoPool) =>
                /\ ~Used(t) => outcome'.result = "TicketNotUsed"
                /\ Claimed(t) => outcome'.result = "RewardAlreadyClaimed"]_vars

\* C22 as amended: the errors TicketNotUsed and RewardAlreadyClaimed are
\* those of the owner claiming in the pool of the ticket; any other
\* claim_reward on such a ticket fails as well, with NotTicketOwner,
\* InvalidTicketPool or AccountNotInitialized
C22_ClaimedOnceFails ==
    [][\A t \in TicketAddresses :
          /\ ClaimedIsSpun(t)
          /\ PaysOnce(t)
          /\ (ClaimsTicket(t) /\ user_ticket[t] # NoTicket /\ (~Used(t) \/ Claimed(t))) =>
                /\ outcome'.result \in {"TicketNotUsed", "RewardAlreadyClaimed",
                                        "NotTicketOwner", "InvalidTicketPool",
                                        "AccountNotInitialized"}
                /\ (/\ outcome'.args.spinner = user_ticket[t].owner
                    /\ outcome'.args.company_pool = user_ticket[t].company_pool) =>
                      outcome'.result = IF ~Used(t) THEN "TicketNotUsed"
                                        ELSE "RewardAlreadyClaimed"]_vars

\* the owner has claimed the reward of a ticket a second time and was refused
C22_Witness ==
    /\ outcome.instr = "claim_reward"
    /\ outcome.result = "RewardAlreadyClaimed"
    /\ Claimed(outcome.args.user_ticket)
    /\ outcome.args.spinner = user_ticket[outcome.args.user_ticket].owner

\* C23: the total_funds of every pool that exists is at most the balance
\* of its vault minus the rent-exempt minimum
C23_FundsBacked ==
    \A n \in CompanyNames :
        company_pool[n] # NoPool =>
            company_pool[n].total_funds <= pool_vault[n] - RentExemptMinimum

\* a reward was paid from lamports the pool did not track: the vault held
\* 2 lamports above total_funds and the minimum before the pool was
\* created, and only a saturating subtraction in claim_reward brings that
\* difference to 1
C23_Witness ==
    /\ outcome.instr = "claim_reward"
    /\ outcome.result = "Ok"
    /\ company_pool["acme"].total_funds = 0
    /\ pool_vault["acme"] - RentExemptMinimum - company_pool["acme"].total_funds = 1

\* the owner of t claims its unclaimed reward in the pool of t
OwnerClaims(t) ==
    /\ ClaimsTicket(t)
    /\ Used(t)
    /\ ~Claimed(t)
    /\ user_ticket[t].won_item # NoWonItem
    /\ outcome'.args.spinner = user_ticket[t].owner
    /\ outcome'.args.company_pool = user_ticket[t].company_pool
    /\ company_pool[t.company_pool] # NoPool

\* C24: a successful claim_reward moves exactly won_item.price from the
\* vault of the pool to the owner of the ticket and leaves the vault at or
\* above the rent-exempt minimum; the claim of the owner fails with
\* InsufficientVaultFunds exactly when the balance above the minimum is
\* less than the reward, and then the ticket (reward_claimed false), the
\* pool (total_funds), the vault and the balances are unchanged
C24_ExactPayout ==
    [][\A t \in TicketAddresses :
          /\ (ClaimsTicket(t) /\ outcome'.result = "Ok") =>
                LET reward == user_ticket[t].won_item.price
                    owner == user_ticket[t].owner
                    n == outcome'.args.company_pool
                IN  /\ pool_vault' = [pool_vault EXCEPT ![n] = @ - reward]
                    /\ lamports' = [lamports EXCEPT ![owner] = @ + reward]
                    /\ pool_vault'[n] >= RentExemptMinimum
          /\ OwnerClaims(t) =>
                /\ (outcome'.result = "InsufficientVaultFunds")
                      = (AvailableBalance(t.company_pool) < user_ticket[t].won_item.price)
                /\ (outcome'.result = "Ok")
                      = (user_ticket[t].won_item.price <= AvailableBalance(t.company_pool))
          /\ (ClaimsTicket(t) /\ outcome'.result = "InsufficientVaultFunds") =>
                /\ UNCHANGED <<user_ticket, company_pool, pool_vault, lamports>>
                /\ Used(t)
                /\ ~user_ticket'[t].reward_claimed]_vars

\* the claim of a reward of 1 lamport was refused as the vault holds the
\* minimum only: the ticket is unclaimed and the next ticket sold makes
\* the reward payable
C24_Witness ==
    /\ outcome.instr = "claim_reward"
    /\ outcome.result = "InsufficientVaultFunds"
    /\ LET t == outcome.args.user_ticket
       IN  /\ ~user_ticket[t].reward_claimed
           /\ user_ticket[t].won_item.price = 1
           /\ AvailableBalance(t.company_pool) = 0
           /\ lamports[user_ticket[t].owner] >= 1

\* the step is a call of withdraw_funds_from_vault
Withdraws == outcome'.instr = "withdraw_funds_from_vault"

\* the conditions under which C25 lets a withdrawal succeed
MayWithdraw(authority, n, amount) ==
    /\ company_pool[n] # NoPool
    /\ company_pool[n].authority = authority
    /\ 0 < amount
    /\ amount <= company_pool[n].total_funds
    /\ amount <= pool_vault[n] - RentExemptMinimum

\* C25: withdraw_funds_from_vault succeeds exactly when the signer is the
\* authority of the pool, 0 < amount <= total_funds and amount <= vault
\* balance minus the rent-exempt minimum; then total_funds and the vault
\* go down by amount, which the authority receives, and nothing else
\* changes; a call that fails changes no pool, vault, ticket or balance
C25_Withdraw ==
    [][Withdraws =>
          LET a == outcome'.args
              n == a.company_pool
          IN  /\ (outcome'.result = "Ok")
                     = MayWithdraw(a.authority, n, a.amount_to_withdraw)
              /\ outcome'.result = "Ok" =>
                    /\ company_pool' = [company_pool EXCEPT
                           ![n].total_funds = @ - a.amount_to_withdraw]
                    /\ pool_vault' = [pool_vault EXCEPT ![n] = @ - a.amount_to_withdraw]
                    /\ lamports' = [lamports EXCEPT ![a.authority] = @ + a.amount_to_withdraw]
                    /\ user_ticket' = user_ticket
              /\ outcome'.result # "Ok" =>
                    UNCHANGED <<company_pool, pool_vault, user_ticket, lamports>>]_vars

\* the authority has withdrawn the 2 lamports two tickets were sold for,
\* one of which is used: the vault is back at the rent-exempt minimum
C25_Witness ==
    /\ outcome.instr = "withdraw_funds_from_vault"
    /\ outcome.result = "Ok"
    /\ outcome.args.amount_to_withdraw = 2
    /\ company_pool[outcome.args.company_pool].total_funds = 0
    /\ pool_vault[outcome.args.company_pool] = RentExemptMinimum
    /\ \E t \in TicketAddresses : Used(t)

\* the tickets issued for pool n
TicketsOf(n) == {t \in TicketAddresses : user_ticket[t] # NoTicket /\ user_ticket[t].company_pool = n}

\* the successful calls of buy_ticket on pool n so far
BuysOf(n) == {e \in history : e[1] = "buy_ticket" /\ e[2].company_pool = n}

\* total_tickets_sold counts the tickets of the pool, whose ids are the
\* numbers below it, each once
IdsSequential(n) ==
    company_pool[n] # NoPool =>
        /\ company_pool[n].total_tickets_sold = Cardinality(TicketsOf(n))
        /\ {user_ticket[t].ticket_id : t \in TicketsOf(n)}
               = 0..(company_pool[n].total_tickets_sold - 1)
        /\ \A t1, t2 \in TicketsOf(n) :
               user_ticket[t1].ticket_id = user_ticket[t2].ticket_id => t1 = t2

\* C26: the k-th successful buy_ticket on a pool (k from 0) creates one
\* ticket, owned by the buyer, with ticket_id k, used false, no won item
\* and reward_claimed false; in every state total_tickets_sold is the
\* number of tickets issued for the pool and their ids are 0, 1, ...
\* without repetition; no other instruction creates a ticket or changes
\* an id
C26_SequentialIds ==
    [][/\ \A n \in TicketPools : IdsSequential(n)
       /\ (outcome'.instr = "buy_ticket" /\ outcome'.result = "Ok") =>
             LET n == outcome'.args.company_pool
                 k == Cardinality(BuysOf(n))
                 created == {t \in TicketAddresses :
                                user_ticket[t] = NoTicket /\ user_ticket'[t] # NoTicket}
             IN  /\ Cardinality(created) = 1
                 /\ \A t \in created :
                       /\ user_ticket'[t].ticket_id = k
                       /\ user_ticket'[t].owner = outcome'.args.buyer
                       /\ user_ticket'[t].company_pool = n
                       /\ ~user_ticket'[t].used
                       /\ user_ticket'[t].won_item = NoWonItem
                       /\ ~user_ticket'[t].reward_claimed
                 /\ company_pool'[n].total_tickets_sold = k + 1
       /\ ~(outcome'.instr = "buy_ticket" /\ outcome'.result = "Ok") =>
             \A t \in TicketAddresses :
                 /\ (user_ticket[t] = NoTicket) = (user_ticket'[t] = NoTicket)
                 /\ user_ticket[t] # NoTicket =>
                       user_ticket'[t].ticket_id = user_ticket[t].ticket_id]_vars

\* "bob" bought the first ticket of the pool and "alice" the second
C26_Witness ==
    /\ outcome.instr = "buy_ticket"
    /\ outcome.result = "Ok"
    /\ outcome.args.buyer = "alice"
    /\ user_ticket[[buyer |-> "bob", company_pool |-> "acme", ticket_id |-> 0]] # NoTicket
    /\ user_ticket[[buyer |-> "alice", company_pool |-> "acme", ticket_id |-> 1]] # NoTicket
    /\ company_pool["acme"].total_tickets_sold = 2

\* the step is a call of record_spin_result or claim_reward on ticket t,
\* which exists, with a pool account that exists
ActsOnTicket(t) ==
    /\ outcome'.instr \in {"record_spin_result", "claim_reward"}
    /\ outcome'.args.user_ticket = t
    /\ user_ticket[t] # NoTicket
    /\ company_pool[outcome'.args.company_pool] # NoPool

NotOwner(t) == outcome'.args.spinner # user_ticket[t].owner

OtherPool(t) == outcome'.args.company_pool # user_ticket[t].company_pool

\* a refused call changes no ticket, pool, vault or balance
Refused == UNCHANGED <<user_ticket, company_pool, pool_vault, lamports>>

\* C27 as stated: record_spin_result and claim_reward by a signer other
\* than the owner of the ticket fail with NotTicketOwner, with a pool other
\* than the pool of the ticket they fail with InvalidTicketPool, and in
\* both cases ticket, pool and vault are unchanged
C27_OwnerOnly ==
    [][\A t \in TicketAddresses :
          ActsOnTicket(t) =>
              /\ NotOwner(t) => (outcome'.result = "NotTicketOwner" /\ Refused)
              /\ OtherPool(t) => (outcome'.result = "InvalidTicketPool" /\ Refused)]_vars

\* C27 as amended: the owner is checked first, so InvalidTicketPool is the
\* error of the owner calling with another pool; calls succeed only for
\* the owner with the pool of the ticket
C27_OwnerFirst ==
    [][\A t \in TicketAddresses :
          ActsOnTicket(t) =>
              /\ NotOwner(t) => (outcome'.result = "NotTicketOwner" /\ Refused)
              /\ (~NotOwner(t) /\ OtherPool(t)) =>
                    (outcome'.result = "InvalidTicketPool" /\ Refused)
              /\ outcome'.result = "Ok" => (~NotOwner(t) /\ ~OtherPool(t))]_vars

\* the owner of a ticket of "acme" called with the pool "bolt" and was
\* refused
C27_Witness ==
    /\ outcome.result = "InvalidTicketPool"
    /\ outcome.instr \in {"record_spin_result", "claim_reward"}
    /\ outcome.args.spinner = user_ticket[outcome.args.user_ticket].owner
    /\ outcome.args.company_pool # user_ticket[outcome.args.user_ticket].company_pool

\* the owner of the unused ticket t spins it in its pool, which exists
OwnerSpins(t) ==
    /\ SpinsTicket(t)
    /\ user_ticket[t] # NoTicket
    /\ ~user_ticket[t].used
    /\ outcome'.args.spinner = user_ticket[t].owner
    /\ outcome'.args.company_pool = user_ticket[t].company_pool
    /\ company_pool[user_ticket[t].company_pool] # NoPool

\* the flags of a pool stay set and an item of it can be selected
PoolOpen(n) ==
    company_pool[n] # NoPool =>
        /\ company_pool[n].active
        /\ \A i \in 1..Len(company_pool[n].items) : company_pool[n].items[i].available
        /\ \E i \in 1..Len(company_pool[n].items) : company_pool[n].items[i].probability # 0

\* C28: in every pool that exists active is set, every item is available
\* and some stored probability is not 0; a spin by the owner of an unused
\* ticket in its pool succeeds, and no record_spin_result fails with
\* PoolInactive, NoAvailableItems or ProbabilitySelectionFailed
C28_SpinSucceeds ==
    [][/\ \A n \in CompanyNames : PoolOpen(n)
       /\ \A t \in TicketAddresses :
             /\ OwnerSpins(t) => outcome'.result = "Ok"
             /\ SpinsTicket(t) =>
                   outcome'.result \notin {"PoolInactive", "NoAvailableItems",
                                           "ProbabilitySelectionFailed"}]_vars

\* two tickets of a pool have won the same item, the second by the spin
\* that has just succeeded
C28_Witness ==
    /\ SpinSucceeded
    /\ \E t1, t2 \in TicketAddresses :
          /\ t1 # t2
          /\ t2 = outcome.args.user_ticket
          /\ Used(t1)
          /\ Used(t2)
          /\ user_ticket[t1].won_item.item_index = user_ticket[t2].won_item.item_index

====
